---- MODULE Spec2Model ----
(***************************************************************************)
(* A model of umqtt/simple2.py: the MQTT 3.1.1 client MQTTClient, its      *)
(* packet-id generator, its pending-ack table rcv_pids, the publish and    *)
(* subscribe encoders and the inbound dispatcher wait_msg / check_msg.     *)
(*                                                                         *)
(* Bytes are the integers 0..255, byte strings are sequences of bytes.     *)
(* An optional value (Python None or a value) is a sequence of length 0    *)
(* or 1.  A call that raises carries the exception in the field exc, ""    *)
(* when it returned.                                                       *)
(***************************************************************************)
EXTENDS Integers, Sequences, FiniteSets, TLC

VARIABLES
    sock,           \* self.sock: "None" until connect, then "open"
    timeout,        \* the timeout last given to sock.settimeout / setblocking
    rcv_pids,       \* self.rcv_pids: the dict, as its items in insertion order
    newpid,         \* the value pid_gen last yielded (0 before the first)
    last_rcommand,  \* self.last_rcommand
    cb_set,         \* self.cb is not None
    rx,             \* bytes the transport holds, not yet read
    now,            \* utime.ticks_ms()
    cfg,            \* the constructor's arguments
    lw,             \* the last will: lw_topic, lw_msg, lw_qos, lw_retain
    call,           \* the last call made on the client and what it was given
    out,            \* what that call did: exception, return value, callbacks, bytes written
    waiting,        \* the read a wait_msg or check_msg call is waiting in
    vi              \* the VarInt codec's round trip: value, bytes, decoded value

vars == <<sock, timeout, rcv_pids, newpid, last_rcommand, cb_set, rx, now,
          cfg, lw, call, out, waiting, vi>>

(***************************************************************************)
(* Bounds of the model.                                                    *)
(***************************************************************************)
\* packet ids the client may allocate in one behaviour of Spec
MaxIssued == 2
\* the clock is followed up to MaxNow milliseconds
MaxNow == 5000

(***************************************************************************)
(* Program constants.                                                      *)
(***************************************************************************)
PID_MAX == 65535
VARLEN_LIMIT == 268435456
message_timeout == 5
socket_timeout == 1

None == <<>>
Some(x) == <<x>>

(***************************************************************************)
(* Byte helpers: int.to_bytes(2, 'big'), int.from_bytes(b, 'big').         *)
(***************************************************************************)
\* to_bytes raises OverflowError outside 0..65535: it has no value there
to_bytes2(n) == CASE n \in 0..65535 -> <<n \div 256, n % 256>>

RECURSIVE from_bytes(_)
from_bytes(bs) ==
    IF bs = <<>> THEN 0
    ELSE from_bytes(SubSeq(bs, 1, Len(bs) - 1)) * 256 + bs[Len(bs)]

\* b & m for the masks the code uses, by arithmetic
And01(b) == b % 2
And06(b) == ((b \div 2) % 4) * 2
AndF0(b) == (b \div 16) * 16
And7F(b) == b % 128
And80(b) == ((b \div 128) % 2) * 128

(***************************************************************************)
(* utime: a millisecond clock.  Within MaxNow the tick counter does not    *)
(* wrap, so ticks_add and ticks_diff are plain sum and difference.         *)
(***************************************************************************)
ticks_add(t, delta) == t + delta
ticks_diff(a, b) == a - b

\* The code copies the value of ticks_ms() and compares it with deadlines
\* (line 359), nothing else.  The clock is looked at when it starts, one
\* millisecond before MaxNow and at MaxNow: with MaxNow the message timeout,
\* just before and exactly at the deadline of an entry made at the start.
Instants == {0, MaxNow - 1, MaxNow}

(***************************************************************************)
(* pid_gen: the generator's next value from its last one.                  *)
(***************************************************************************)
\* the generator wrapping to 0 instead of 1
pid_gen_wrap_to_zero(pid) == IF pid < PID_MAX THEN pid + 1 ELSE 0

pid_gen(pid) == IF pid < PID_MAX THEN pid + 1 ELSE 1

(***************************************************************************)
(* The dict rcv_pids, as the sequence of its (pid, deadline) items in      *)
(* insertion order.                                                        *)
(***************************************************************************)
Keys(d) == {d[i][1] : i \in 1..Len(d)}
dict_get(d, k) == d[CHOOSE i \in 1..Len(d) : d[i][1] = k][2]
dict_set(d, k, v) ==
    IF k \in Keys(d)
    THEN [i \in 1..Len(d) |-> IF d[i][1] = k THEN <<k, v>> ELSE d[i]]
    ELSE Append(d, <<k, v>>)
dict_pop(d, k) == SelectSeq(d, LAMBDA e : e[1] # k)

(***************************************************************************)
(* The transport.  buf is what the transport gives the call from its first *)
(* read on: the bytes in the order they come, with a Gap wherever nothing  *)
(* comes for longer than a timed read waits.  Bytes before the first Gap   *)
(* are there when they are asked for.  sock.read(n) under the timeout tmo: *)
(*   - b'' for n = 0, and n bytes when n bytes are there;                  *)
(*   - under "nonblocking" (setblocking(False)) it does not wait: it gives *)
(*     the bytes that are there, None when there are none;                 *)
(*   - under a timeout in seconds it waits: at a Gap the timeout runs out  *)
(*     and it gives the bytes before the Gap, None when there are none;    *)
(*     at the end of buf it is still waiting (wait), what comes next is    *)
(*     not known yet;                                                      *)
(*   - under None it waits for its n bytes however long they take, so a    *)
(*     Gap before them does not show.                                      *)
(* A negative n asks for everything up to the end of the stream.           *)
(***************************************************************************)
Gap == -1

first_gap(buf) ==
    IF \E i \in 1..Len(buf) : buf[i] = Gap
    THEN CHOOSE i \in 1..Len(buf) : buf[i] = Gap /\ \A j \in 1..(i - 1) : buf[j] # Gap
    ELSE 0

no_gaps(buf) == SelectSeq(buf, LAMBDA b : b # Gap)

\* where the n-th byte of buf is, the Gaps before it counted
nth_byte(buf, n) ==
    CHOOSE i \in 1..Len(buf) : buf[i] # Gap /\ Len(no_gaps(SubSeq(buf, 1, i))) = n

\* a read that ended: the bytes it gives, None when it has none to give
gives(data, rest) ==
    [wait |-> FALSE, none |-> data = <<>>, data |-> data, rest |-> rest]

\* sock.read(n), n # 0, when fewer than n bytes are there; all that is there
\* lies before the first Gap, which is at g, or buf has no Gap and g is 0
read_short(buf, n, tmo, g, all) ==
    IF tmo = "nonblocking" THEN gives(all, SubSeq(buf, Len(all) + 1, Len(buf)))
    ELSE IF tmo = "None"
    THEN IF n > 0 /\ Len(no_gaps(buf)) >= n
         THEN gives(SubSeq(no_gaps(buf), 1, n),
                    SubSeq(buf, nth_byte(buf, n) + 1, Len(buf)))
         ELSE [wait |-> TRUE, none |-> FALSE, data |-> <<>>, rest |-> buf]
    ELSE IF g = 0 THEN [wait |-> TRUE, none |-> FALSE, data |-> <<>>, rest |-> buf]
    ELSE gives(all, SubSeq(buf, g + 1, Len(buf)))

read_upto(buf, n, tmo, g) ==
    IF n = 0 THEN [wait |-> FALSE, none |-> FALSE, data |-> <<>>, rest |-> buf]
    ELSE IF n > 0 /\ (g = 0 \/ g > n) /\ Len(buf) >= n
    THEN gives(SubSeq(buf, 1, n), SubSeq(buf, n + 1, Len(buf)))
    ELSE read_short(buf, n, tmo, g, IF g = 0 THEN buf ELSE SubSeq(buf, 1, g - 1))

sock_read(buf, n, tmo) == read_upto(buf, n, tmo, first_gap(buf))

\* lines 80-87: the tests _read makes on what sock.read gave
read_checked(r, n) ==
    [wait |-> r.wait, none |-> r.none, data |-> r.data, rest |-> r.rest,
     exc |-> IF r.wait \/ r.none THEN ""
             ELSE IF r.data = <<>> THEN "MQTTException(1)"
             ELSE IF Len(r.data) # n THEN "MQTTException(2)"
             ELSE ""]

_read(buf, n, tmo) == read_checked(sock_read(buf, n, tmo), n)

(***************************************************************************)
(* A call's writes, in order.  wfail = 0: the transport takes every write  *)
(* whole.  wfail = k: it takes the k-th write short by one byte, and       *)
(* _write raises MQTTException(3); a write of no bytes cannot be short.    *)
(***************************************************************************)
RECURSIVE do_writes(_, _, _)
do_writes(chunks, wfail, k) ==
    IF chunks = <<>> THEN [tx |-> <<>>, n_ok |-> 0, exc |-> ""]
    ELSE LET c == Head(chunks)
         IN  IF wfail = k /\ c # <<>>
             THEN [tx |-> SubSeq(c, 1, Len(c) - 1), n_ok |-> 0,
                   exc |-> "MQTTException(3)"]
             ELSE LET r == do_writes(Tail(chunks), wfail, k + 1)
                  IN  [tx |-> c \o r.tx, n_ok |-> r.n_ok + 1, exc |-> r.exc]

_write(chunks, wfail) == do_writes(chunks, wfail, 1)

\* what a piece of a call hands to _write, in order, and the exception it
\* raises after these writes, "" when it raises none
writes(chunks) == [exc |-> "", chunks |-> chunks]

\* _send_str(s): the assert of line 116, then the two writes of a
\* length-prefixed string; a string of 65536 bytes or more raises
\* AssertionError before anything is written
_send_str(s) ==
    IF ~(Len(s) < 65536) THEN [exc |-> "AssertionError", chunks |-> <<>>]
    ELSE writes(<<to_bytes2(Len(s)), s>>)

\* pieces run one after another: the first that raises ends the call
RECURSIVE in_order(_)
in_order(ps) ==
    IF ps = <<>> THEN writes(<<>>)
    ELSE LET p == Head(ps)
             r == in_order(Tail(ps))
         IN  IF p.exc # "" THEN p
             ELSE [exc |-> r.exc, chunks |-> p.chunks \o r.chunks]

\* the writes of the pieces against the transport: a write cut short raises
\* MQTTException(3) where it happens, otherwise the pieces' own exception
\* follows the writes made before it
send(ps, wfail) ==
    LET p == in_order(ps)
        w == _write(p.chunks, wfail)
    IN  IF w.exc # "" THEN w ELSE [w EXCEPT !.exc = p.exc]

(***************************************************************************)
(* The VarInt codec of the Remaining Length field.                         *)
(***************************************************************************)
RECURSIVE varlen_loop(_, _, _)
\* the loop with its test off by one: while value > 0x80
varlen_loop_off_by_one(value, buf, offset) ==
    IF value > 128
    THEN varlen_loop(value \div 128,
                     [buf EXCEPT ![offset + 1] = And7F(value) + 128], offset + 1)
    ELSE [buf |-> [buf EXCEPT ![offset + 1] = value], end |-> offset + 1]

\* lines 137-142
varlen_loop(value, buf, offset) ==
    IF value > 127
    THEN varlen_loop(value \div 128,
                     [buf EXCEPT ![offset + 1] = And7F(value) + 128], offset + 1)
    ELSE [buf |-> [buf EXCEPT ![offset + 1] = value], end |-> offset + 1]

\* buf is a bytearray, offset counts from 0; returns the offset after the last byte
_varlen_encode(value, buf, offset) ==
    IF ~(value < VARLEN_LIMIT)
    THEN [exc |-> "AssertionError", buf |-> buf, end |-> offset]
    ELSE LET r == varlen_loop(value, buf, offset)
         IN  [exc |-> "", buf |-> r.buf, end |-> r.end]

\* lines 127-133, its reads under the timeout tmo
RECURSIVE recv_len_loop(_, _, _, _)
\* one round of the loop, r being what its read gave
recv_len_round(buf, n, sh, tmo, r) ==
    IF r.wait THEN [wait |-> TRUE, exc |-> "", n |-> n, rest |-> buf]
    ELSE IF r.none
    THEN [wait |-> FALSE, exc |-> "TypeError", n |-> n, rest |-> r.rest]
    ELSE IF And80(r.data[1]) = 0
    THEN [wait |-> FALSE, exc |-> "", n |-> n + And7F(r.data[1]) * (2 ^ sh),
          rest |-> r.rest]
    ELSE recv_len_loop(r.rest, n + And7F(r.data[1]) * (2 ^ sh), sh + 7, tmo)

recv_len_loop(buf, n, sh, tmo) == recv_len_round(buf, n, sh, tmo, _read(buf, 1, tmo))

_recv_len(buf, tmo) == recv_len_loop(buf, 0, 0, tmo)

(***************************************************************************)
(* _message_timeout: the sweep of rcv_pids.  The clock is read once, on    *)
(* line 357.  The loop of line 358 iterates over self.rcv_pids.items() and *)
(* line 360 pops from the same dict.  What the iteration of a dict does    *)
(* once the dict has changed size is the interpreter's choice, and the     *)
(* code runs with either:                                                  *)
(*   - "unchecked": the iterator walks the slots of the dict without a     *)
(*     test of its size, as MicroPython's does (the interpreter whose      *)
(*     usocket, ustruct and utime the module imports): every item is       *)
(*     visited, each expired entry is popped and reported with status 0;   *)
(*   - "checked": the iterator tests the size at each step, as CPython's   *)
(*     does: the first expired item, in the order of insertion, is popped  *)
(*     and reported, and the next step of the iteration raises             *)
(*     RuntimeError, also when that item was the last.                     *)
(***************************************************************************)
DictIterations == {"unchecked", "checked"}

Expired(e, curr_tick) == ticks_diff(e[2], curr_tick) <= 0

\* the sweep dropping expired entries without reporting them
_message_timeout_silent(d, curr_tick, iter) ==
    [rcv_pids |-> SelectSeq(d, LAMBDA e : ~Expired(e, curr_tick)),
     cbstat |-> {}, exc |-> ""]

_message_timeout(d, curr_tick, iter) ==
    LET hit == {i \in 1..Len(d) : Expired(d[i], curr_tick)}
    IN  IF hit = {} \/ iter = "unchecked"
        THEN [rcv_pids |-> SelectSeq(d, LAMBDA e : ~Expired(e, curr_tick)),
              cbstat |-> {<<d[i][1], 0>> : i \in hit},
              exc |-> ""]
        ELSE LET i == CHOOSE j \in hit : \A k \in hit : j <= k
             IN  [rcv_pids |-> dict_pop(d, d[i][1]),
                  cbstat |-> {<<d[i][1], 0>>},
                  exc |-> "RuntimeError"]

(***************************************************************************)
(* wait_msg.  s is the client: rcv_pids, last_rcommand, cb_set, timeout    *)
(* and the clock now; buf what the transport gives; st the argument _st;   *)
(* wfail the write the transport cuts short; iter what the interpreter's   *)
(* dict iteration does in the sweep.  Once its reads are done the  *)
(* call reads the clock at most twice, with a callback of the owner in     *)
(* between, which takes its time: s.now is the clock at the first of these *)
(* readings and later the clock at the second.  For a PUBACK or SUBACK the *)
(* first is the stamp of last_rcommand (lines 394, 414), then cbstat runs  *)
(* (396, 398, 416) and the second is the sweep's (420, 357); for a PUBLISH *)
(* the first is the sweep's, then cb runs (433) and the second is the      *)
(* stamp (434).  The result says what the call did, now being the clock as *)
(* the call last read it.  blocked means that the call is waiting in a     *)
(* read at the end of buf: it has not returned, the result holds what it   *)
(* did before that read, rest is buf from that read on and stage is the    *)
(* part of wait_msg the read belongs to: "first" the first read (line      *)
(* 374), "acks" a read of a PINGRESP, PUBACK or SUBACK (lines 382-406,     *)
(* before the sweep), "publish" a read of a PUBLISH (lines 424-431, after  *)
(* the sweep).                                                             *)
(***************************************************************************)
wait_base(s, buf) ==
    [exc |-> "", ret |-> None, rcv_pids |-> s.rcv_pids,
     last_rcommand |-> s.last_rcommand, cbstat |-> {}, cb |-> <<>>,
     tx |-> <<>>, rest |-> buf, timeout |-> s.timeout, blocked |-> FALSE,
     stage |-> "none", now |-> s.now]

\* the call waiting in a read of the given stage, with buf left to read
waits_in(b, stage, buf) ==
    [b EXCEPT !.blocked = TRUE, !.stage = stage, !.rest = buf]

\* lines 381-384: PINGRESP
wait_pingresp(s, b, st) ==
    LET r == _read(b.rest, 1, st)
    IN  IF r.wait THEN waits_in(b, "acks", b.rest)
        ELSE IF r.none THEN [b EXCEPT !.rest = r.rest, !.exc = "TypeError"]
        ELSE [b EXCEPT !.rest = r.rest, !.last_rcommand = s.now]

\* lines 393-398: the PUBACK's pid against the table
resolve_puback(s, b, pid) ==
    IF pid \in Keys(b.rcv_pids)
    THEN [b EXCEPT !.last_rcommand = s.now,
                   !.rcv_pids = dict_pop(b.rcv_pids, pid),
                   !.cbstat = {<<pid, 1>>}]
    ELSE [b EXCEPT !.cbstat = {<<pid, 2>>}]

\* lines 388-398: PUBACK
wait_puback(s, b, st) ==
    LET r1 == _read(b.rest, 1, st)
        r2 == _read(r1.rest, 2, st)
    IN  IF r1.wait THEN waits_in(b, "acks", b.rest)
        ELSE IF r1.none \/ r1.data # <<2>>
        THEN [b EXCEPT !.rest = r1.rest, !.exc = "MQTTException(-1)"]
        ELSE IF r2.wait THEN waits_in(b, "acks", r1.rest)
        ELSE IF r2.exc # "" THEN [b EXCEPT !.rest = r2.rest, !.exc = r2.exc]
        ELSE IF r2.none THEN [b EXCEPT !.rest = r2.rest, !.exc = "TypeError"]
        ELSE resolve_puback(s, [b EXCEPT !.rest = r2.rest], from_bytes(r2.data))

\* lines 406-418: the four bytes after the SUBACK's type byte
\* the SUBACK checks without the checks of the return code
suback_checks_accept_any_code(s, b, resp) ==
    LET pid == resp[3] + resp[2] * 256
    IN  IF resp[1] # 3 THEN [b EXCEPT !.exc = "MQTTException(40)"]
        ELSE IF pid \in Keys(b.rcv_pids)
        THEN [b EXCEPT !.last_rcommand = s.now,
                       !.rcv_pids = dict_pop(b.rcv_pids, pid),
                       !.cbstat = {<<pid, 1>>}]
        ELSE [b EXCEPT !.exc = "MQTTException(5)"]

\* the SUBACK checks reporting an unknown pid with status 2, as PUBACK does
suback_checks_unknown_pid_status2(s, b, resp) ==
    LET pid == resp[3] + resp[2] * 256
    IN  IF resp[1] # 3 THEN [b EXCEPT !.exc = "MQTTException(40)"]
        ELSE IF resp[4] = 128 THEN [b EXCEPT !.exc = "MQTTException(44)"]
        ELSE IF resp[4] \notin {0, 1, 2} THEN [b EXCEPT !.exc = "MQTTException(40)"]
        ELSE IF pid \in Keys(b.rcv_pids)
        THEN [b EXCEPT !.last_rcommand = s.now,
                       !.rcv_pids = dict_pop(b.rcv_pids, pid),
                       !.cbstat = {<<pid, 1>>}]
        ELSE [b EXCEPT !.cbstat = {<<pid, 2>>}]

suback_checks(s, b, resp) ==
    LET pid == resp[3] + resp[2] * 256
    IN  IF resp[1] # 3 THEN [b EXCEPT !.exc = "MQTTException(40)"]
        ELSE IF resp[4] = 128 THEN [b EXCEPT !.exc = "MQTTException(44)"]
        ELSE IF resp[4] \notin {0, 1, 2} THEN [b EXCEPT !.exc = "MQTTException(40)"]
        ELSE IF pid \in Keys(b.rcv_pids)
        THEN [b EXCEPT !.last_rcommand = s.now,
                       !.rcv_pids = dict_pop(b.rcv_pids, pid),
                       !.cbstat = {<<pid, 1>>}]
        ELSE [b EXCEPT !.exc = "MQTTException(5)"]

\* lines 400-418: SUBACK
wait_suback(s, b, st) ==
    LET r == _read(b.rest, 4, st)
    IN  IF r.wait THEN waits_in(b, "acks", b.rest)
        ELSE IF r.exc # "" THEN [b EXCEPT !.rest = r.rest, !.exc = r.exc]
        ELSE IF r.none THEN [b EXCEPT !.rest = r.rest, !.exc = "TypeError"]
        ELSE suback_checks(s, [b EXCEPT !.rest = r.rest], r.data)

\* lines 432-439: deliver the message, stamp last_rcommand with the clock as
\* it is when the callback has returned, then acknowledge the message
publish_deliver(s, c, op, topic, msg, pid, wfail, later) ==
    LET w == _write(<< <<64, 2>>, to_bytes2(pid) >>, wfail)
        d == [c EXCEPT !.cb = << [topic |-> topic, msg |-> msg,
                                   retained |-> And01(op) = 1] >>,
                       !.last_rcommand = later, !.now = later]
    IN  IF ~s.cb_set THEN [c EXCEPT !.exc = "TypeError"]
        ELSE IF And06(op) = 2 THEN [d EXCEPT !.tx = w.tx, !.exc = w.exc]
        ELSE IF And06(op) = 4 THEN [d EXCEPT !.exc = "MQTTException(-1)"]
        ELSE d

\* lines 428-431: the packet id, read from the socket itself, and the payload
publish_body(s, c, op, st, wfail, later, topic, sz) ==
    LET r3 == sock_read(c.rest, 2, st)
        hasPid == And06(op) # 0
        rest3 == IF hasPid THEN r3.rest ELSE c.rest
        pid == IF hasPid THEN from_bytes(r3.data) ELSE 0
        sz2 == IF hasPid THEN sz - 2 ELSE sz
        r4 == _read(rest3, sz2, st)
    IN  IF hasPid /\ r3.wait THEN waits_in(c, "publish", c.rest)
        ELSE IF hasPid /\ r3.none THEN [c EXCEPT !.rest = r3.rest, !.exc = "TypeError"]
        ELSE IF r4.wait THEN waits_in(c, "publish", rest3)
        ELSE IF r4.exc # "" THEN [c EXCEPT !.rest = r4.rest, !.exc = r4.exc]
        ELSE publish_deliver(s, [c EXCEPT !.rest = r4.rest], op, topic,
                             IF r4.none THEN None ELSE Some(r4.data), pid, wfail,
                             later)

\* lines 424-427: remaining length and topic of a PUBLISH
wait_publish(s, c, op, st, wfail, later) ==
    LET l == _recv_len(c.rest, st)
        r1 == _read(l.rest, 2, st)
        topic_len == from_bytes(r1.data)
        r2 == _read(r1.rest, topic_len, st)
    IN  IF l.wait THEN waits_in(c, "publish", l.rest)
        ELSE IF l.exc # "" THEN [c EXCEPT !.rest = l.rest, !.exc = l.exc]
        ELSE IF r1.wait THEN waits_in(c, "publish", l.rest)
        ELSE IF r1.exc # "" THEN [c EXCEPT !.rest = r1.rest, !.exc = r1.exc]
        ELSE IF r1.none THEN [c EXCEPT !.rest = r1.rest, !.exc = "TypeError"]
        ELSE IF r2.wait THEN waits_in(c, "publish", r1.rest)
        ELSE IF r2.exc # "" THEN [c EXCEPT !.rest = r2.rest, !.exc = r2.exc]
        ELSE publish_body(s, [c EXCEPT !.rest = r2.rest], op, st, wfail, later,
                          IF r2.none THEN None ELSE Some(r2.data),
                          l.n - (topic_len + 2))

\* lines 380-420: the packets that resolve a pending ack, then the sweep
wait_acks(s, b, op, st) ==
    IF op = 64 THEN wait_puback(s, b, st)
    ELSE IF op = 144 THEN wait_suback(s, b, st)
    ELSE b

\* the clock the sweep of line 420 reads: after a PUBACK or SUBACK the status
\* callback has run since the call's first reading
sweep_tick(s, op, later) == IF op \in {64, 144} THEN later ELSE s.now

wait_dispatch(s, b, op, st, wfail, later, iter) ==
    IF op = 208 THEN wait_pingresp(s, b, st)
    ELSE LET a == wait_acks(s, b, op, st)
             sw == _message_timeout(a.rcv_pids, sweep_tick(s, op, later), iter)
             c == [a EXCEPT !.rcv_pids = sw.rcv_pids,
                            !.cbstat = a.cbstat \cup sw.cbstat,
                            !.exc = sw.exc,
                            !.now = sweep_tick(s, op, later)]
         IN  IF a.exc # "" \/ a.blocked THEN a
             ELSE IF c.exc # "" THEN c
             ELSE IF AndF0(op) # 48 THEN [c EXCEPT !.ret = Some(op)]
             ELSE wait_publish(s, c, op, st, wfail, later)

\* lines 374-379, then the rest of wait_msg; the first read runs under the
\* timeout the socket has at the call, the later reads under st (line 376)
wait_msg(s, buf, st, wfail, later, iter) ==
    LET r0 == _read(buf, 1, s.timeout)
        base == wait_base(s, buf)
        sw == _message_timeout(s.rcv_pids, s.now, iter)
    IN  IF r0.wait THEN waits_in(base, "first", buf)
        ELSE IF r0.none
        THEN [base EXCEPT !.timeout = st, !.rest = r0.rest, !.rcv_pids = sw.rcv_pids,
                          !.cbstat = sw.cbstat, !.exc = sw.exc]
        ELSE wait_dispatch(s, [base EXCEPT !.timeout = st, !.rest = r0.rest],
                           r0.data[1], st, wfail, later, iter)

\* wait_msg going on from the read it waited in, once the transport has given
\* more.  s is the client as the call has left it so far, with the clock as it
\* is now; held is all the transport has given the call; tmo0 is the timeout
\* its first read ran under.  The reads before the one it waited in give what
\* they gave, and what the call did before that read is done already.
wait_resume(stage, s, held, tmo0, st, wfail, later, iter) ==
    LET r0 == _read(held, 1, tmo0)
        b == [wait_base(s, held) EXCEPT !.timeout = st, !.rest = r0.rest]
    IN  IF stage = "first" THEN wait_msg(s, held, st, wfail, later, iter)
        ELSE IF stage = "acks"
        THEN wait_dispatch(s, b, r0.data[1], st, wfail, later, iter)
        ELSE wait_publish(s, b, r0.data[1], st, wfail, later)

\* lines 449-450: setblocking(False), then wait_msg(_st=self.socket_timeout).
\* The first read does not wait; each later read waits for its bytes until
\* the socket timeout runs out.
check_msg(s, buf, wfail, later, iter) ==
    wait_msg([s EXCEPT !.timeout = "nonblocking"], buf, "socket_timeout", wfail, later,
             iter)

(***************************************************************************)
(* publish.  s is the client (rcv_pids, newpid, timeout, now).             *)
(***************************************************************************)
publish_result(s) ==
    [exc |-> "", ret |-> None, rcv_pids |-> s.rcv_pids, newpid |-> s.newpid,
     timeout |-> "socket_timeout", tx |-> <<>>]

\* lines 319-320: plen = _varlen_encode(sz, pkt, 1), then the plen bytes to write
publish_header(pkt, sz) ==
    LET e == _varlen_encode(sz, pkt, 1)
    IN  [exc |-> e.exc, head |-> IF e.exc = "" THEN SubSeq(e.buf, 1, e.end) ELSE <<>>]

\* lines 314-328: the packet, its writes, the pending-ack entry
publish_send(s, topic, msg, retain, qos, dup, wfail) ==
    LET b == publish_result(s)
        pkt == <<48 + qos * 2 + (IF retain THEN 1 ELSE 0) + (IF dup THEN 8 ELSE 0),
                 0, 0, 0, 0>>
        sz == 2 + Len(topic) + Len(msg) + (IF qos > 0 THEN 2 ELSE 0)
        e == publish_header(pkt, sz)
        pid == pid_gen(s.newpid)
        w == send(<<writes(<<e.head>>), _send_str(topic),
                    writes(IF qos > 0 THEN <<to_bytes2(pid), msg>> ELSE <<msg>>)>>,
                  wfail)
        took == qos > 0 /\ w.n_ok >= 3
        c == [b EXCEPT !.tx = w.tx, !.exc = w.exc,
                       !.newpid = IF took THEN pid ELSE s.newpid]
    IN  IF e.exc # "" THEN [b EXCEPT !.exc = e.exc]
        ELSE IF w.exc # "" \/ qos = 0 THEN c
        ELSE [c EXCEPT !.ret = Some(pid),
                       !.rcv_pids = dict_set(s.rcv_pids, pid,
                            ticks_add(s.now, message_timeout * 1000))]

\* publish without its assert on qos
publish_qos_unchecked(s, topic, msg, retain, qos, dup, wfail) ==
    publish_send(s, topic, msg, retain, qos, dup, wfail)

\* lines 312-313: settimeout, then the assert on qos
publish(s, topic, msg, retain, qos, dup, wfail) ==
    IF qos \notin {0, 1} THEN [publish_result(s) EXCEPT !.exc = "AssertionError"]
    ELSE publish_send(s, topic, msg, retain, qos, dup, wfail)

(***************************************************************************)
(* subscribe.                                                              *)
(***************************************************************************)
\* lines 345-354
subscribe_send(s, topic, qos, wfail) ==
    LET b == [publish_result(s) EXCEPT !.newpid = pid_gen(s.newpid)]
        pid == pid_gen(s.newpid)
        pkt == <<130, 0, 0, 0, 0, 0, 0>>
        sz == 2 + 2 + Len(topic) + 1
        e == _varlen_encode(sz, pkt, 1)
        pb == to_bytes2(pid)
        pkt2 == [e.buf EXCEPT ![e.end + 1] = pb[1], ![e.end + 2] = pb[2]]
        w == send(<<writes(<<SubSeq(pkt2, 1, e.end + 2)>>), _send_str(topic),
                    writes(<< <<qos>> >>)>>, wfail)
        c == [b EXCEPT !.tx = w.tx, !.exc = w.exc]
    IN  IF e.exc # "" THEN [b EXCEPT !.exc = e.exc]
        ELSE IF w.exc # "" THEN c
        ELSE [c EXCEPT !.ret = Some(pid),
                       !.rcv_pids = dict_set(s.rcv_pids, pid,
                            ticks_add(s.now, message_timeout * 1000))]

\* lines 342-344: the assert on qos, settimeout, the assert on the callback
subscribe(s, topic, qos, wfail) ==
    IF qos \notin {0, 1}
    THEN [publish_result(s) EXCEPT !.exc = "AssertionError", !.timeout = s.timeout]
    ELSE IF ~s.cb_set THEN [publish_result(s) EXCEPT !.exc = "AssertionError"]
    ELSE subscribe_send(s, topic, qos, wfail)

(***************************************************************************)
(* ping.                                                                   *)
(***************************************************************************)
ping(s, wfail) ==
    LET w == _write(<< <<192, 0>> >>, wfail)
    IN  [publish_result(s) EXCEPT !.tx = w.tx, !.exc = w.exc]

(***************************************************************************)
(* disconnect: settimeout, the DISCONNECT packet, then sock.close().       *)
(***************************************************************************)
disconnect(s, wfail) ==
    LET w == _write(<< <<224, 0>> >>, wfail)
    IN  [publish_result(s) EXCEPT !.tx = w.tx, !.exc = w.exc]

(***************************************************************************)
(* set_last_will: the two asserts, then the four fields.                   *)
(***************************************************************************)
set_last_will(l, topic, msg, retain, qos) ==
    IF ~(0 <= qos /\ qos <= 2) \/ topic = <<>>
    THEN [exc |-> "AssertionError", lw |-> l]
    ELSE [exc |-> "",
          lw |-> [topic |-> Some(topic), msg |-> msg, qos |-> qos, retain |-> retain]]

(***************************************************************************)
(* connect.  c is the configuration, l the last will, buf what the broker  *)
(* answers on the new socket.                                              *)
(***************************************************************************)
\* the connect flags with the password flag set whenever a password is configured
connect_flags_password_alone(c, l, clean_session) ==
    (IF clean_session THEN 2 ELSE 0)
    + (IF c.user # None THEN 128 ELSE 0)
    + (IF c.pswd # None THEN 64 ELSE 0)
    + (IF l.topic # None /\ l.topic[1] # <<>>
       THEN 4 + (l.qos % 2) * 8 + ((l.qos \div 2) % 2) * 16
              + (IF l.retain THEN 32 ELSE 0)
       ELSE 0)

\* lines 234-251: the connect flags
connect_flags(c, l, clean_session) ==
    (IF clean_session THEN 2 ELSE 0)
    + (IF c.user # None THEN 128 ELSE 0)
    + (IF c.user # None /\ c.pswd # None THEN 64 ELSE 0)
    + (IF l.topic # None /\ l.topic[1] # <<>>
       THEN 4 + (l.qos % 2) * 8 + ((l.qos \div 2) % 2) * 16
              + (IF l.retain THEN 32 ELSE 0)
       ELSE 0)

\* lines 232-249: the remaining length
connect_sz(c, l) ==
    10 + 2 + Len(c.client_id)
    + (IF c.user # None THEN 2 + Len(c.user[1]) ELSE 0)
    + (IF c.user # None /\ c.pswd # None THEN 2 + Len(c.pswd[1]) ELSE 0)
    + (IF l.topic # None /\ l.topic[1] # <<>>
       THEN 2 + Len(l.topic[1]) + 2 + Len(l.msg) ELSE 0)

\* the CONNACK read without the test of its return code
connack_any_code(b, buf) ==
    LET r == _read(buf \o <<Gap>>, 4, "socket_timeout")
        resp == r.data
    IN  IF r.exc # "" THEN [b EXCEPT !.rest = r.rest, !.exc = r.exc]
        ELSE IF r.none THEN [b EXCEPT !.rest = r.rest, !.exc = "TypeError"]
        ELSE IF ~(resp[1] = 32 /\ resp[2] = 2)
        THEN [b EXCEPT !.rest = r.rest, !.exc = "AssertionError"]
        ELSE [b EXCEPT !.rest = r.rest, !.ret = Some(And01(resp[3]))]

\* lines 264-271: the CONNACK.  buf is what the broker sends before the socket
\* timeout of the read runs out; connect reads no clock, so how long the read
\* waited for it does not show
connack(b, buf) ==
    LET r == _read(buf \o <<Gap>>, 4, "socket_timeout")
        resp == r.data
    IN  IF r.exc # "" THEN [b EXCEPT !.rest = r.rest, !.exc = r.exc]
        ELSE IF r.none THEN [b EXCEPT !.rest = r.rest, !.exc = "TypeError"]
        ELSE IF ~(resp[1] = 32 /\ resp[2] = 2)
        THEN [b EXCEPT !.rest = r.rest, !.exc = "AssertionError"]
        ELSE IF resp[4] # 0
        THEN [b EXCEPT !.rest = r.rest,
                !.exc = IF resp[4] >= 1 /\ resp[4] <= 5
                        THEN "MQTTException(" \o ToString(20 + resp[4]) \o ")"
                        ELSE "MQTTException(20, " \o ToString(resp[4]) \o ")"]
        ELSE [b EXCEPT !.rest = r.rest, !.ret = Some(And01(resp[3]))]

\* the table kept whatever clean_session says
connect_table_kept(s, clean_session) == s.rcv_pids

\* lines 236-237: a clean session clears the table
connect_table(s, clean_session) == IF clean_session THEN <<>> ELSE s.rcv_pids

connect(s, c, l, clean_session, buf, wfail) ==
    LET b == [exc |-> "", ret |-> None,
              rcv_pids |-> connect_table(s, clean_session),
              tx |-> <<>>, rest |-> buf]
        premsg == <<16, 0, 0, 0, 0, 0>>
        msg == <<0, 4, 77, 81, 84, 84, 4, connect_flags(c, l, clean_session),
                 c.keepalive \div 256, c.keepalive % 256>>
        e == _varlen_encode(connect_sz(c, l), premsg, 1)
        will == l.topic # None /\ l.topic[1] # <<>>
        w == send(<<writes(<<SubSeq(e.buf, 1, e.end), msg>>), _send_str(c.client_id)>>
                  \o (IF will THEN <<_send_str(l.topic[1]), _send_str(l.msg)>> ELSE <<>>)
                  \o (IF c.user # None THEN <<_send_str(c.user[1])>> ELSE <<>>)
                  \o (IF c.user # None /\ c.pswd # None
                      THEN <<_send_str(c.pswd[1])>> ELSE <<>>),
                  wfail)
    IN  IF ~(c.keepalive < 65536) \/ e.exc # "" THEN [b EXCEPT !.exc = "AssertionError"]
        ELSE IF w.exc # "" THEN [b EXCEPT !.tx = w.tx, !.exc = w.exc]
        ELSE connack([b EXCEPT !.tx = w.tx], buf)

(***************************************************************************)
(* The state machine.                                                      *)
(***************************************************************************)
Topic == <<116>>
Payloads == {<<>>, <<109>>}

\* what the broker may have sent when the client looks
Connacks ==
    {<<32, 2, 0, 0>>, <<32, 2, 1, 0>>, <<32, 2, 0, 5>>}

Pubacks ==
    {<<64, 2, 0, p>> : p \in 1..(MaxIssued + 1)}

Subacks ==
    {<<144, 3, 0, 1, rc>> : rc \in {0, 3, 128}}
    \cup {<<144, 3, 0, MaxIssued + 1, 0>>, <<144, 2, 0, 1, 0>>, <<144, 2, 0, 1>>}

Publishes ==
    {<<48, 2 + 1 + Len(m)>> \o to_bytes2(1) \o Topic \o m : m \in Payloads}
    \cup {<<50, 2 + 1 + 2 + Len(m)>> \o to_bytes2(1) \o Topic \o to_bytes2(7) \o m :
             m \in Payloads}
    \cup {<<49, 4, 0, 1, 116, 109>>}
    \cup {<<op, 6, 0, 1, 116, 0, 7, 109>> : op \in {52, 54}}

Inbound == {<<>>, <<208, 0>>, <<176, 2, 0, 1>>} \cup Pubacks \cup Subacks \cup Publishes

Self ==
    [rcv_pids |-> rcv_pids, newpid |-> newpid, last_rcommand |-> last_rcommand,
     cb_set |-> cb_set, timeout |-> timeout, now |-> now]

\* call: the operation, the bytes the transport held for it, its qos argument,
\* the write the transport cut short, the table, last_rcommand and generator
\* value it found, connect's clean_session argument, and the clock when the
\* call was made
NoCall == [op |-> "init", inb |-> <<>>, qos |-> 0, wfail |-> 0, pre |-> <<>>,
           rc0 |-> 0, pid0 |-> 0, clean |-> FALSE, t0 |-> 0]
NoOut == [exc |-> "", ret |-> None, cbstat |-> {}, cb |-> <<>>, tx |-> <<>>]

Called(name, inb, qos, wfail) ==
    [op |-> name, inb |-> inb, qos |-> qos, wfail |-> wfail, pre |-> rcv_pids,
     rc0 |-> last_rcommand, pid0 |-> newpid, clean |-> FALSE, t0 |-> now]

\* waiting: the read a wait_msg or check_msg call is waiting in.  stage is
\* the part of wait_msg the read belongs to, held what the transport has given
\* the call so far, tmo0 the timeout the call's first read ran under and st
\* its argument _st.  NotWaiting: no call is waiting, the owner is free to
\* make a call.
NotWaiting == [stage |-> "none", held |-> <<>>, tmo0 |-> "unset", st |-> "unset"]
Idle == waiting = NotWaiting

\* the timeout of the read the call is waiting in
WaitTimeout == IF waiting.stage = "first" THEN waiting.tmo0 ELSE waiting.st

\* a call on a client that has no socket yet: self.sock is None
NoSocket(name, inb, qos, wfail) ==
    /\ sock = "None"
    /\ Idle
    /\ call' = Called(name, inb, qos, wfail)
    /\ out' = [NoOut EXCEPT !.exc = "AttributeError"]
    /\ UNCHANGED <<sock, timeout, rcv_pids, newpid, last_rcommand, cb_set, rx,
                   now, cfg, lw, waiting, vi>>

Init ==
    /\ sock = "None"
    /\ timeout = "unset"
    /\ rcv_pids = <<>>
    /\ newpid = 0
    /\ last_rcommand = 0
    /\ cb_set = FALSE
    /\ rx = <<>>
    /\ now = 0
    /\ cfg = [client_id |-> <<97, 98, 99>>, user |-> None, pswd |-> None,
              keepalive |-> 0]
    /\ lw = [topic |-> None, msg |-> <<>>, qos |-> 0, retain |-> FALSE]
    /\ call = NoCall
    /\ out = NoOut
    /\ vi = [pc |-> "idle", value |-> 0, bytes |-> <<>>, exc |-> "", decoded |-> 0]
    /\ waiting = NotWaiting

\* the instants the clock may be read at from now on
Later == {t \in Instants : t >= now}

\* time passes, by any amount, between two calls or while a call waits inside
\* a read: nothing bounds the time the interpreter takes from one statement
\* to the next, and a read under a timeout may wait again for each part of
\* what it was asked for
Tick ==
    /\ \E t \in Later \ {now} : now' = t
    /\ call' = IF Idle THEN Called("tick", <<>>, 0, 0) ELSE call
    /\ out' = IF Idle THEN NoOut ELSE out
    /\ UNCHANGED <<sock, timeout, rcv_pids, newpid, last_rcommand, cb_set, rx,
                   cfg, lw, waiting, vi>>

SetCallback ==
    /\ Idle
    /\ ~cb_set
    /\ cb_set' = TRUE
    /\ call' = Called("set_callback", <<>>, 0, 0)
    /\ out' = NoOut
    /\ UNCHANGED <<sock, timeout, rcv_pids, newpid, last_rcommand, rx, now,
                   cfg, lw, waiting, vi>>

SetLastWill(topic, msg, retain, qos) ==
    LET r == set_last_will(lw, topic, msg, retain, qos)
    IN  /\ Idle
        /\ lw' = r.lw
        /\ call' = Called("set_last_will", <<>>, qos, 0)
        /\ out' = [NoOut EXCEPT !.exc = r.exc]
        /\ UNCHANGED <<sock, timeout, rcv_pids, newpid, last_rcommand, cb_set, rx,
                       now, cfg, waiting, vi>>

Connect(clean_session, resp, wfail) ==
    LET r == connect(Self, cfg, lw, clean_session, resp, wfail)
    IN  /\ Idle
        /\ sock' = "open"
        /\ timeout' = "socket_timeout"
        /\ rcv_pids' = r.rcv_pids
        /\ rx' = no_gaps(r.rest)
        /\ call' = [Called("connect", resp, 0, wfail) EXCEPT !.clean = clean_session]
        /\ out' = [NoOut EXCEPT !.exc = r.exc, !.ret = r.ret, !.tx = r.tx]
        /\ UNCHANGED <<newpid, last_rcommand, cb_set, now, cfg, lw, waiting, vi>>

Ping(wfail) ==
    \/ NoSocket("ping", <<>>, 0, wfail)
    \/ LET r == ping(Self, wfail)
       IN  /\ sock = "open"
           /\ Idle
           /\ timeout' = r.timeout
           /\ call' = Called("ping", <<>>, 0, wfail)
           /\ out' = [NoOut EXCEPT !.exc = r.exc, !.tx = r.tx]
           /\ UNCHANGED <<sock, rcv_pids, newpid, last_rcommand, cb_set, rx, now,
                          cfg, lw, waiting, vi>>

\* after close() the socket object stays in self.sock
Disconnect(wfail) ==
    \/ NoSocket("disconnect", <<>>, 0, wfail)
    \/ LET r == disconnect(Self, wfail)
       IN  /\ sock = "open"
           /\ Idle
           /\ sock' = IF r.exc = "" THEN "closed" ELSE "open"
           /\ timeout' = r.timeout
           /\ call' = Called("disconnect", <<>>, 0, wfail)
           /\ out' = [NoOut EXCEPT !.exc = r.exc, !.tx = r.tx]
           /\ UNCHANGED <<rcv_pids, newpid, last_rcommand, cb_set, rx, now,
                          cfg, lw, waiting, vi>>

Publish(topic, msg, retain, qos, dup, wfail) ==
    \/ NoSocket("publish", <<>>, qos, wfail)
    \/ LET r == publish(Self, topic, msg, retain, qos, dup, wfail)
       IN  /\ sock = "open"
           /\ Idle
           /\ timeout' = r.timeout
           /\ rcv_pids' = r.rcv_pids
           /\ newpid' = r.newpid
           /\ call' = Called("publish", <<>>, qos, wfail)
           /\ out' = [NoOut EXCEPT !.exc = r.exc, !.ret = r.ret, !.tx = r.tx]
           /\ UNCHANGED <<sock, last_rcommand, cb_set, rx, now, cfg, lw, waiting, vi>>

Subscribe(topic, qos, wfail) ==
    \/ /\ qos \in {0, 1}
       /\ NoSocket("subscribe", <<>>, qos, wfail)
    \/ LET r == subscribe(Self, topic, qos, wfail)
       IN  /\ sock = "open" \/ qos \notin {0, 1}
           /\ Idle
           /\ timeout' = r.timeout
           /\ rcv_pids' = r.rcv_pids
           /\ newpid' = r.newpid
           /\ call' = Called("subscribe", <<>>, qos, wfail)
           /\ out' = [NoOut EXCEPT !.exc = r.exc, !.ret = r.ret, !.tx = r.tx]
           /\ UNCHANGED <<sock, last_rcommand, cb_set, rx, now, cfg, lw, waiting, vi>>

\* the effect of a stretch of a dispatch step: the call returned or raised,
\* or it has come to a read that waits; inb is what the transport has given
\* the call since it was made.  What the call did before it waited stays done,
\* and out gathers what it does from its start to its return.  A pause of the
\* transport is over when the call has returned.
Dispatched(name, r, inb, wfail, tmo0, st) ==
    /\ timeout' = r.timeout
    /\ rcv_pids' = r.rcv_pids
    /\ last_rcommand' = r.last_rcommand
    /\ now' = r.now
    /\ rx' = IF r.blocked THEN <<>> ELSE no_gaps(r.rest)
    /\ waiting' = IF r.blocked
                  THEN [stage |-> r.stage, held |-> inb, tmo0 |-> tmo0, st |-> st]
                  ELSE NotWaiting
    /\ call' = IF Idle THEN Called(name, inb, 0, wfail)
               ELSE [call EXCEPT !.inb = inb, !.wfail = wfail]
    /\ out' = [exc |-> r.exc, ret |-> r.ret,
               cbstat |-> (IF Idle THEN {} ELSE out.cbstat) \cup r.cbstat,
               cb |-> r.cb, tx |-> r.tx]
    /\ UNCHANGED <<sock, newpid, cb_set, cfg, lw, vi>>

\* wait_msg() is called: it runs until it returns, raises or waits in a read
WaitMsg(pkt, wfail, later, iter) ==
    \/ NoSocket("wait_msg", rx \o pkt, 0, wfail)
    \/ /\ sock = "open"
       /\ Idle
       /\ Dispatched("wait_msg", wait_msg(Self, rx \o pkt, "None", wfail, later, iter),
                     rx \o pkt, wfail, timeout, "None")

\* check_msg() is called: it runs until it returns, raises or waits in one of
\* its reads after the first
CheckMsg(pkt, wfail, later, iter) ==
    \/ NoSocket("check_msg", rx \o pkt, 0, wfail)
    \/ /\ sock = "open"
       /\ Idle
       /\ Dispatched("check_msg", check_msg(Self, rx \o pkt, wfail, later, iter),
                     rx \o pkt, wfail, "nonblocking", "socket_timeout")

\* the transport gives more to a call that waits in a read, bytes or, to a
\* read under a timeout in seconds, the Gap that runs its timeout out: the
\* call goes on
Resume(pkt, wfail, later, iter) ==
    /\ ~Idle
    /\ pkt # <<>>
    /\ Gap \in {pkt[i] : i \in 1..Len(pkt)} => WaitTimeout # "None"
    /\ Dispatched(call.op,
                  wait_resume(waiting.stage, Self, waiting.held \o pkt, waiting.tmo0,
                              waiting.st, wfail, later, iter),
                  waiting.held \o pkt, wfail, waiting.tmo0, waiting.st)

\* packets of which only the first bytes have arrived when the client looks
Heads == {<<48>>, <<50>>, <<64, 2>>}

\* the broker's bytes arrive only when the transport holds none
Arrivals == IF rx = <<>> THEN Inbound \cup Heads ELSE {<<>>}

\* what a check_msg() of the owner finds: nothing, a PINGRESP, an
\* acknowledgment of a known or an unknown pid, a rejected subscribe, a
\* PUBLISH, or the first bytes of a packet
Polled ==
    {<<>>, <<208, 0>>, <<64, 2, 0, 1>>, <<64, 2, 0, MaxIssued + 1>>,
     <<144, 3, 0, 1, 0>>, <<144, 3, 0, 1, 128>>,
     <<48, 4, 0, 1, 116, 109>>, <<50, 6, 0, 1, 116, 0, 7, 109>>}
PolledArrivals == IF rx = <<>> THEN Polled \cup Heads ELSE {<<>>}

\* what may come for a call that waits: the rest of each of the packets that
\* begin with what the call has been given, or nothing for as long as its read
\* waits
Rest(packets) ==
    {SubSeq(p, Len(waiting.held) + 1, Len(p)) :
        p \in {q \in packets : /\ Len(q) > Len(waiting.held)
                               /\ SubSeq(q, 1, Len(waiting.held)) = waiting.held}}
    \cup (IF ~Idle /\ WaitTimeout # "None" THEN {<<Gap>>} ELSE {})

\* PUBLISH packets that come slowly, each read of the call finding its bytes
\* only after a wait: the type byte, a length field of three bytes (84 80 00,
\* the value 4) or of two (86 00, the value 6), the topic length, the topic,
\* the packet id of the QoS-1 one, the payload
SlowPublishes ==
    { << <<48>>, <<132>>, <<128>>, <<0>>, <<0, 1>>, <<116>>, <<109>> >>,
      << <<50>>, <<134>>, <<0>>, <<0, 1>>, <<116>>, <<0, 7>>, <<109>> >> }

RECURSIVE Joined(_, _)
Joined(pieces, k) == IF k = 0 THEN <<>> ELSE Joined(pieces, k - 1) \o pieces[k]

\* the next piece of a slow PUBLISH, when the call has been given the pieces
\* before it
NextPiece ==
    UNION {{p[k + 1] : k \in {j \in 1..(Len(p) - 1) : waiting.held = Joined(p, j)}} :
              p \in SlowPublishes}

\* what the clock may show when the owner's callback has returned, inb being
\* what the call reads: the dispatch step reads the clock a second time only
\* for a PUBACK, a SUBACK and a PUBLISH
Laters(inb) ==
    IF inb # <<>> /\ (inb[1] \in {64, 144} \/ AndF0(inb[1]) = 48) THEN Later ELSE {now}

\* what the sweep of a call may do: the two iterations differ only when an
\* entry has expired by the time the call last reads the clock
Sweeps(later) ==
    IF \E i \in 1..Len(rcv_pids) : Expired(rcv_pids[i], later)
    THEN DictIterations ELSE {"unchecked"}

\* a call that raised in the middle of a packet has left the rest of it in
\* the transport: this owner connects anew, on a new socket (line 201),
\* before it dispatches again
InStep == out.exc = "" \/ rx = <<>>

Next ==
    \/ Tick
    \/ rx = <<>> /\ SetCallback
    \/ \E clean \in BOOLEAN, resp \in Connacks, wfail \in {0} :
          Connect(clean, resp, wfail)
    \/ rx = <<>> /\ Ping(0)
    \/ \E qos \in 0..2, wfail \in {0, 4} :
          /\ rx = <<>>
          /\ qos = 1 => newpid < MaxIssued
          /\ qos # 1 => wfail = 0
          /\ Publish(Topic, <<109>>, FALSE, qos, FALSE, wfail)
    \/ \E qos \in 0..2 :
          /\ rx = <<>>
          /\ newpid < MaxIssued
          /\ Subscribe(Topic, qos, 0)
    \/ \E pkt \in Arrivals : \E later \in Laters(rx \o pkt) :
          \E iter \in Sweeps(later) : InStep /\ WaitMsg(pkt, 0, later, iter)
    \/ \E pkt \in Rest(Inbound) : \E later \in Laters(no_gaps(waiting.held \o pkt)) :
          \E iter \in Sweeps(later) : Resume(pkt, 0, later, iter)
    \/ \E pkt \in PolledArrivals : \E later \in Laters(rx \o pkt) :
          \E iter \in Sweeps(later) : InStep /\ CheckMsg(pkt, 0, later, iter)

Spec == Init /\ [][Next]_vars

(***************************************************************************)
(* The owner keeps calling the dispatch step and time keeps passing.       *)
(***************************************************************************)
\* what the broker sends to this owner: nothing, a PINGRESP, the PUBACK of
\* either publish, a PUBLISH
LiveInbound ==
    {<<>>, <<208, 0>>, <<48, 4, 0, 1, 116, 109>>}
    \cup {<<64, 2, 0, p>> : p \in 1..MaxIssued}

LiveArrivals == IF rx = <<>> THEN LiveInbound \cup Heads ELSE {<<>>}

\* the owner calls the dispatch step
DispatchStep ==
    \E pkt \in LiveArrivals : \E later \in Laters(rx \o pkt) :
        \E iter \in Sweeps(later) :
            WaitMsg(pkt, 0, later, iter) \/ CheckMsg(pkt, 0, later, iter)

\* an owner that connects, publishes with QoS 1, pings and dispatches
NextLive ==
    \/ Tick
    \/ \E clean \in BOOLEAN : Connect(clean, <<32, 2, 0, 0>>, 0)
    \/ Ping(0)
    \/ /\ newpid < MaxIssued
       /\ Publish(Topic, <<109>>, FALSE, 1, FALSE, 0)
    \/ DispatchStep
    \/ \E pkt \in Rest(LiveInbound) :
          \E later \in Laters(no_gaps(waiting.held \o pkt)) :
              \E iter \in Sweeps(later) : Resume(pkt, 0, later, iter)

\* the owner goes on calling and the clock goes on; whether the broker sends
\* what a waiting call waits for, and when, is not the owner's to decide
FairSpec == Init /\ [][NextLive]_vars /\ WF_vars(Tick) /\ WF_vars(DispatchStep)

(***************************************************************************)
(* A slow broker: a connected client with a QoS-1 publish pending polls    *)
(* with check_msg() while a PUBLISH comes piece by piece, each read of the *)
(* call waiting for its bytes, and time passes meanwhile: the sweep of     *)
(* line 420 and the stamp of line 434 read different values of the clock.  *)
(***************************************************************************)
NextSlow ==
    \/ Tick
    \/ SetCallback
    \/ Connect(FALSE, <<32, 2, 0, 0>>, 0)
    \/ /\ newpid < MaxIssued
       /\ Publish(Topic, <<109>>, FALSE, 1, FALSE, 0)
    \/ \E p \in SlowPublishes, later \in Later :
          /\ rx = <<>>
          /\ \E iter \in Sweeps(later) : CheckMsg(p[1], 0, later, iter)
    \/ \E pkt \in NextPiece \cup {<<Gap>>}, later \in Later :
          \E iter \in Sweeps(later) : Resume(pkt, 0, later, iter)

SpecSlow == Init /\ [][NextSlow]_vars

(***************************************************************************)
(* The packet-id generator over its whole cycle: a connected client with   *)
(* its callback set allocates an id by a QoS-1 publish or a subscribe,     *)
(* and the broker acknowledges it before the next is allocated.            *)
(***************************************************************************)
InitPid ==
    /\ Init!3 /\ Init!4 /\ Init!5 /\ Init!7 /\ Init!8 /\ Init!9 /\ Init!10
    /\ Init!11 /\ Init!12 /\ Init!13 /\ Init!14
    /\ sock = "open"
    /\ timeout = "socket_timeout"
    /\ cb_set = TRUE

PidAlloc ==
    /\ rcv_pids = <<>>
    /\ \/ Publish(Topic, <<109>>, FALSE, 1, FALSE, 0)
       \/ Subscribe(Topic, 0, 0)

PidAck ==
    /\ rcv_pids # <<>>
    /\ \E iter \in Sweeps(now) :
          CheckMsg(<<IF call.op = "publish" THEN 64 ELSE 144>>
                   \o (IF call.op = "publish" THEN <<2>> ELSE <<3>>)
                   \o to_bytes2(newpid)
                   \o (IF call.op = "publish" THEN <<>> ELSE <<0>>), 0, now, iter)

NextPid == PidAlloc \/ PidAck

SpecPid == InitPid /\ [][NextPid]_vars

(***************************************************************************)
(* The VarInt codec on its own: a remaining length is encoded into a       *)
(* PUBLISH header as publish does, and the bytes after the type byte are   *)
(* decoded as wait_msg does.                                               *)
(***************************************************************************)
\* values around each power of 128 are taken, MaxDelta to either side
MaxDelta == 5

VarintValues ==
    {v \in {b + d : b \in {0, 128, 16384, 2097152, VARLEN_LIMIT},
                    d \in (0 - MaxDelta)..MaxDelta} : v >= 0}

InitVarint ==
    /\ Init!1 /\ Init!2 /\ Init!3 /\ Init!4 /\ Init!5 /\ Init!6 /\ Init!7
    /\ Init!8 /\ Init!9 /\ Init!10 /\ Init!11 /\ Init!12 /\ Init!14
    /\ \E v \in VarintValues :
          vi = [pc |-> "idle", value |-> v, bytes |-> <<>>, exc |-> "", decoded |-> 0]

VarintEncode ==
    /\ vi.pc = "idle"
    /\ LET e == publish_header(<<48, 0, 0, 0, 0>>, vi.value)
       IN  vi' = [vi EXCEPT !.pc = "encoded", !.bytes = e.head, !.exc = e.exc]
    /\ UNCHANGED <<sock, timeout, rcv_pids, newpid, last_rcommand, cb_set, rx,
                   now, cfg, lw, call, out, waiting>>

VarintDecode ==
    /\ vi.pc = "encoded"
    /\ vi.exc = ""
    /\ LET l == _recv_len(Tail(vi.bytes) \o <<Gap>>, "socket_timeout")
       IN  vi' = [vi EXCEPT !.pc = "decoded", !.exc = l.exc, !.decoded = l.n]
    /\ UNCHANGED <<sock, timeout, rcv_pids, newpid, last_rcommand, cb_set, rx,
                   now, cfg, lw, call, out, waiting>>

NextVarint == VarintEncode \/ VarintDecode

SpecVarint == InitVarint /\ [][NextVarint]_vars

(***************************************************************************)
(* The decoder of the Remaining Length on its own: the transport holds a   *)
(* length field of up to five bytes and _recv_len reads it.  A fifth byte  *)
(* is below 8 and has no successor, which keeps n below 2^31.              *)
(***************************************************************************)
LenBytes == {0, 1, 127, 128, 255}

LenFields ==
    UNION {[1..k -> LenBytes] : k \in 1..4}
    \cup {<<a, b, c, d, e>> : a \in {128, 255}, b \in {128, 255}, c \in {128, 255},
                               d \in {128, 255}, e \in {0, 1, 7}}

InitRecvLen ==
    /\ Init!1 /\ Init!2 /\ Init!3 /\ Init!4 /\ Init!5 /\ Init!6 /\ Init!7
    /\ Init!8 /\ Init!9 /\ Init!10 /\ Init!11 /\ Init!12 /\ Init!14
    /\ \E f \in LenFields :
          vi = [pc |-> "held", value |-> 0, bytes |-> f, exc |-> "", decoded |-> 0]

\* rx keeps what the decoder left in the transport
RecvLen ==
    /\ vi.pc = "held"
    /\ LET l == _recv_len(vi.bytes \o <<Gap>>, "socket_timeout")
       IN  /\ vi' = [vi EXCEPT !.pc = "read", !.exc = l.exc, !.decoded = l.n]
           /\ rx' = no_gaps(l.rest)
    /\ UNCHANGED <<sock, timeout, rcv_pids, newpid, last_rcommand, cb_set,
                   now, cfg, lw, call, out, waiting>>

SpecRecvLen == InitRecvLen /\ [][RecvLen]_vars

(***************************************************************************)
(* Connecting: a client built with one of the configurations, whose owner  *)
(* sets a last will and connects; the broker answers with a CONNACK, a     *)
(* malformed one, one followed by another packet, or not at all.           *)
(***************************************************************************)
Configs ==
    [client_id : {<<>>, <<97, 98, 99>>},
     user : {None, Some(<<117>>)},
     pswd : {None, Some(<<112, 119>>)},
     keepalive : {0, 300}]

WillMsgs == {<<98>>, [i \in 1..130 |-> 98]}

ConnackReplies ==
    {<<32, 2, 0, rc>> : rc \in {0, 1, 2, 3, 4, 5, 6, 255}}
    \cup {<<32, 2, 1, 0>>, <<32, 2, 3, 0>>, <<32, 2, 1, 5>>, <<48, 2, 0, 0>>,
          <<32, 3, 0, 0>>, <<48, 2, 0, 5>>, <<32, 2, 0, 0, 208, 0>>,
          <<32, 2, 0>>, <<>>}

InitConnect ==
    /\ Init!1 /\ Init!2 /\ Init!3 /\ Init!4 /\ Init!5 /\ Init!6 /\ Init!7
    /\ Init!8 /\ Init!10 /\ Init!11 /\ Init!12 /\ Init!13 /\ Init!14
    /\ cfg \in Configs

NextConnect ==
    \/ \E msg \in WillMsgs, retain \in BOOLEAN, qos \in 0..3 :
          SetLastWill(<<97>>, msg, retain, qos)
    \/ SetLastWill(<<>>, <<98>>, FALSE, 0)
    \/ \E clean \in BOOLEAN, resp \in ConnackReplies :
          Connect(clean, resp, 0)

SpecConnect == InitConnect /\ [][NextConnect]_vars

(***************************************************************************)
(* An unreliable transport: a packet of the broker may have arrived only   *)
(* in part when the client reads, and any one write of a call may be cut   *)
(* short.  No time passes, so no entry expires.  A wait_msg() that waits   *)
(* for the rest of a packet goes on when the rest has arrived.             *)
(***************************************************************************)
WirePackets ==
    {<<32, 2, 0, 0>>, <<208, 0>>, <<64, 2, 0, 1>>, <<144, 3, 0, 1, 0>>,
     <<48, 5, 0, 1, 116, 109, 109>>, <<50, 6, 0, 1, 116, 0, 7, 109>>}

\* every packet whole and cut after each of its bytes
WireArrivals ==
    IF rx # <<>> THEN {<<>>}
    ELSE {<<>>} \cup UNION {{SubSeq(p, 1, k) : k \in 1..Len(p)} : p \in WirePackets}

NextWire ==
    \/ SetCallback
    \/ \E resp \in {SubSeq(<<32, 2, 0, 0>>, 1, k) : k \in 0..4}, wfail \in 0..4 :
          Connect(FALSE, resp, wfail)
    \/ \E wfail \in 0..1 : Ping(wfail)
    \/ \E wfail \in 0..1 : Disconnect(wfail)
    \/ \E wfail \in 0..5 :
          /\ newpid < MaxIssued
          /\ Publish(Topic, <<109>>, FALSE, 1, FALSE, wfail)
    \/ \E wfail \in 0..4 :
          /\ newpid < MaxIssued
          /\ Subscribe(Topic, 0, wfail)
    \/ \E pkt \in WireArrivals, wfail \in 0..2 :
          \E iter \in Sweeps(now) : WaitMsg(pkt, wfail, now, iter)
    \/ \E pkt \in Rest(WirePackets), wfail \in 0..2 :
          \E iter \in Sweeps(now) : Resume(pkt, wfail, now, iter)
    \/ \E pkt \in WireArrivals, wfail \in 0..2 :
          \E iter \in Sweeps(now) : CheckMsg(pkt, wfail, now, iter)

SpecWire == Init /\ [][NextWire]_vars

(***************************************************************************)
(* The claims.                                                             *)
(***************************************************************************)
\* the last call was a dispatch step, and it has returned or raised
Dispatching == sock = "open" /\ call.op \in {"wait_msg", "check_msg"} /\ Idle
U16(inb, i) == inb[i] * 256 + inb[i + 1]
\* the transport gave the call bytes without a pause
AllBytes(inb) == \A i \in 1..Len(inb) : inb[i] \in 0..255
ExpiredIn(d, t) == {d[i][1] : i \in {j \in 1..Len(d) : Expired(d[j], t)}}

\* C1: a QoS-1 publish registers pid -> now + message_timeout; when no
\* PUBACK for it arrives and the owner keeps calling the dispatch step while
\* time passes the deadline, the entry is eventually reported with status 0
\* and gone from the table.  Stated for every pid: once its entry has
\* expired, it eventually leaves the table, unless a call raises or waits in
\* a read for bytes of the broker.
C1_ExpiredEventuallySwept ==
    \A p \in 1..MaxIssued :
        (p \in ExpiredIn(rcv_pids, now))
            ~> (p \notin Keys(rcv_pids) \/ out.exc # "" \/ ~Idle)

\* C2: an entry enters the table only by a QoS-1 publish or a subscribe that
\* was sent, and leaves it only with exactly one of the status callbacks
\* (pid, 1) and (pid, 0).
C2_LeavesOnlyByAckOrTimeout ==
    /\ \A p \in Keys(rcv_pids) \ Keys(call.pre) :
          /\ call.op \in {"publish", "subscribe"}
          /\ call.op = "publish" => call.qos = 1
          /\ out.exc = "" /\ out.ret = Some(p) /\ out.tx # <<>>
    /\ \A p \in Keys(call.pre) \ Keys(rcv_pids) :
          (<<p, 1>> \in out.cbstat) # (<<p, 0>> \in out.cbstat)

\* C2 as amended: an entry also leaves the table, with no status callback,
\* when connect with clean_session true clears the table.
C2_LeavesByAckTimeoutOrCleanConnect ==
    /\ \A p \in Keys(rcv_pids) \ Keys(call.pre) :
          /\ call.op \in {"publish", "subscribe"}
          /\ call.op = "publish" => call.qos = 1
          /\ out.exc = "" /\ out.ret = Some(p) /\ out.tx # <<>>
    /\ \A p \in Keys(call.pre) \ Keys(rcv_pids) :
          \/ /\ call.op \in {"wait_msg", "check_msg"}
             /\ (<<p, 1>> \in out.cbstat) # (<<p, 0>> \in out.cbstat)
          \/ /\ call.op = "connect"
             /\ rcv_pids = <<>>
             /\ out.cbstat = {}

C2_Witness ==
    /\ call.op = "connect"
    /\ call.pre # <<>>
    /\ rcv_pids = <<>>
    /\ out.exc = ""

\* C3: every wait_msg / check_msg that returns without raising has run the
\* sweep: no entry whose deadline had passed when the call started is in the
\* table when it returns.
C3_SweepOnEveryReturn ==
    (Dispatching /\ out.exc = "") => ExpiredIn(rcv_pids, call.t0) = {}

C5_SubackRejected ==
    (Dispatching /\ Len(call.inb) >= 2 /\ call.inb[1] = 144)
    => /\ (Len(call.inb) >= 5 /\ call.inb[2] = 3 /\ call.inb[5] = 128)
             => out.exc = "MQTTException(44)"
       /\ (/\ Len(call.inb) >= 5 /\ call.inb[2] = 3
           /\ call.inb[5] \in (0..255) \ {0, 1, 2, 128})
             => out.exc = "MQTTException(40)"
       /\ call.inb[2] \in (0..255) \ {3}
             => out.exc \in {"MQTTException(40)", "MQTTException(2)"}
       /\ out.exc \in {"MQTTException(44)", "MQTTException(40)", "MQTTException(2)"}
             => \A e \in out.cbstat : e[2] # 1

C5_Witness ==
    /\ Dispatching
    /\ call.inb = <<144, 3, 0, 1, 128>>
    /\ 1 \in Keys(call.pre)
    /\ out.exc = "MQTTException(44)"
    /\ 1 \in Keys(rcv_pids)

\* C6: a well-formed SUBACK with return code 0, 1 or 2: when its pid is in
\* the table the entry is removed, status 1 is reported and last_rcommand is
\* updated, that is, set to a value the clock had during the call; when it
\* is not, the call fails with MQTTException(5) and no status is reported
\* for that pid.
C6_SubackResolvesOrFails ==
    (/\ Dispatching
     /\ Len(call.inb) = 5 /\ call.inb[1] = 144 /\ call.inb[2] = 3
     /\ call.inb[5] \in {0, 1, 2})
    => LET pid == U16(call.inb, 3)
       IN  IF pid \in Keys(call.pre)
           THEN /\ pid \notin Keys(rcv_pids)
                /\ <<pid, 1>> \in out.cbstat
                /\ last_rcommand \in call.t0..now
           ELSE /\ out.exc = "MQTTException(5)"
                /\ \A st \in 0..2 : <<pid, st>> \notin out.cbstat
                /\ rcv_pids = call.pre

\* the SUBACK of a pending subscribe, dispatched by a call made after the
\* last stamp, with the clock moving on while the status callback runs
C6_Witness ==
    /\ Dispatching
    /\ call.inb = <<144, 3, 0, 1, 0>>
    /\ 1 \in Keys(call.pre)
    /\ <<1, 1>> \in out.cbstat
    /\ call.rc0 < call.t0
    /\ last_rcommand = call.t0
    /\ call.t0 < now

\* C7: publish and subscribe with qos = 2 fail before any byte is written,
\* allocate no packet id and leave the table unchanged.
C7_Qos2Refused ==
    (call.op \in {"publish", "subscribe"} /\ call.qos = 2)
    => /\ out.exc # ""
       /\ sock = "open" => out.exc = "AssertionError"
       /\ out.tx = <<>>
       /\ out.ret = None
       /\ newpid = call.pid0
       /\ rcv_pids = call.pre

C7_Witness ==
    /\ sock = "open"
    /\ call.op = "publish"
    /\ call.qos = 2
    /\ out.exc = "AssertionError"
    /\ rcv_pids # <<>>

\* C8: an inbound PUBLISH with QoS bits 0x02 is delivered to the message
\* callback and then acknowledged with exactly 0x40 0x02 pid_hi pid_lo; an
\* inbound PUBLISH with QoS bits 0 is not acknowledged.  Stated for a
\* complete PUBLISH, a client whose callback is set, a transport that takes
\* every write and a table with no expired entry.
IsPublish(inb, qosbits) ==
    /\ Len(inb) >= 4
    /\ AllBytes(inb)
    /\ AndF0(inb[1]) = 48
    /\ And06(inb[1]) = qosbits
    /\ inb[2] < 128
    /\ Len(inb) = 2 + inb[2]
    /\ inb[2] >= 2 + U16(inb, 3) + (IF qosbits = 0 THEN 0 ELSE 2)
    /\ U16(inb, 3) > 0

C8_InboundQos1Acked ==
    (/\ Dispatching /\ cb_set /\ call.wfail = 0
     /\ ExpiredIn(call.pre, now) = {})
    => /\ IsPublish(call.inb, 2)
          => /\ Len(out.cb) = 1
             /\ out.tx = <<64, 2>>
                  \o SubSeq(call.inb, 5 + U16(call.inb, 3), 6 + U16(call.inb, 3))
       /\ IsPublish(call.inb, 0) => out.tx = <<>>

\* C9: the generator issues 1, 2, ..., 65535, 1, ...: every id issued by a
\* QoS-1 publish or a subscribe is in 1..65535, follows the one before it,
\* and 1 follows 65535; every key of the table is in 1..65535.
C9_PidCycle ==
    /\ newpid \in 0..65535
    /\ Keys(rcv_pids) \subseteq 1..65535
    /\ (call.op \in {"publish", "subscribe"} /\ out.exc = "" /\ out.ret # None)
       => /\ out.ret = Some(newpid)
          /\ newpid \in 1..65535
          /\ call.pid0 < 65535 => newpid = call.pid0 + 1
          /\ call.pid0 = 65535 => newpid = 1
          /\ newpid \in Keys(rcv_pids)

C9_Witness ==
    /\ call.op = "subscribe"
    /\ call.pid0 = 65535
    /\ newpid = 1
    /\ out.ret = Some(1)
    /\ Keys(rcv_pids) = {1}

\* C10: for 0 <= v < 2^28 the encoder writes 1 to 4 bytes, all but the last
\* with the high bit set and the last with it clear, and the decoder reads v
\* back from them; for v >= 2^28 the encoder fails with AssertionError and
\* nothing is handed to the transport.
C10_VarIntRoundTrip ==
    /\ (vi.pc = "encoded" /\ vi.value < 268435456)
       => LET bs == Tail(vi.bytes)
          IN  /\ vi.exc = ""
              /\ vi.bytes[1] = 48
              /\ Len(bs) \in 1..4
              /\ \A i \in 1..(Len(bs) - 1) : bs[i] >= 128
              /\ bs[Len(bs)] < 128
    /\ (vi.pc = "encoded" /\ vi.value >= 268435456)
       => vi.exc = "AssertionError" /\ vi.bytes = <<>>
    /\ vi.pc = "decoded" => vi.exc = "" /\ vi.decoded = vi.value

C10_Witness ==
    /\ vi.pc = "decoded"
    /\ vi.value = 268435455
    /\ vi.decoded = 268435455
    /\ Len(vi.bytes) = 5

\* C11: a Remaining Length whose first four bytes all have the high bit set
\* makes the decoder fail, and the decoder has then read at most four bytes
\* of it: it never reads a fifth length byte.
C11_LengthFieldBounded ==
    (/\ vi.pc = "read"
     /\ Len(vi.bytes) >= 4
     /\ \A i \in 1..4 : vi.bytes[i] >= 128)
    => /\ vi.exc # ""
       /\ Len(vi.bytes) - Len(rx) <= 4

\* the CONNECT packet a connect call wrote: the bytes after its length field
ConnectBody == _recv_len(Tail(out.tx), "nonblocking").rest
WillSet == lw.topic # None

\* C12: the CONNECT packet built by connect has the flags byte
\* (user ? 0x80) | (user and password ? 0x40) | (will and retain ? 0x20) |
\* (will ? will_qos << 3) | (will ? 0x04) | (clean_session ? 0x02), bit 0
\* clear, and the remaining length 10 + 2 + len(client_id) + (will ? 2 +
\* len(will_topic) + 2 + len(will_msg)) + (user ? 2 + len(user)) + (user and
\* password ? 2 + len(password)); without a username the password flag is
\* clear and the password is not written.
C12_ConnectPacket ==
    call.op = "connect"
    => LET flags == ConnectBody[8]
           user == cfg.user # None
           pass == cfg.user # None /\ cfg.pswd # None
           sz == 10 + 2 + Len(cfg.client_id)
                 + (IF WillSet THEN 2 + Len(lw.topic[1]) + 2 + Len(lw.msg) ELSE 0)
                 + (IF user THEN 2 + Len(cfg.user[1]) ELSE 0)
                 + (IF pass THEN 2 + Len(cfg.pswd[1]) ELSE 0)
       IN  /\ out.tx[1] = 16
           /\ _recv_len(Tail(out.tx), "nonblocking").n = sz
           /\ Len(ConnectBody) = sz
           /\ flags = (IF user THEN 128 ELSE 0) + (IF pass THEN 64 ELSE 0)
                      + (IF WillSet /\ lw.retain THEN 32 ELSE 0)
                      + (IF WillSet THEN lw.qos * 8 ELSE 0)
                      + (IF WillSet THEN 4 ELSE 0)
                      + (IF call.clean THEN 2 ELSE 0)
           /\ flags % 2 = 0
           /\ (~user /\ cfg.pswd # None)
              => /\ (flags \div 64) % 2 = 0
                 /\ SubSeq(ConnectBody, sz - 3, sz) # <<0, 2>> \o cfg.pswd[1]

C12_Witness ==
    /\ call.op = "connect"
    /\ call.clean
    /\ cfg.client_id = <<97, 98, 99>>
    /\ cfg.user # None /\ cfg.pswd # None
    /\ WillSet /\ lw.retain /\ lw.qos = 1 /\ Len(lw.msg) = 130
    /\ out.exc = ""
    /\ ConnectBody[8] = 238
    /\ SubSeq(out.tx, 1, 3) = <<16, 157, 1>>

\* C13: after sending CONNECT, connect reads exactly 4 bytes; return code 0
\* returns bit 0 of byte 2; a code in 1..5 fails with MQTTException(20 + code),
\* one error for each code; any other nonzero code fails with
\* MQTTException(20, code); a first byte other than 0x20 or a second other
\* than 0x02 fails with AssertionError; connect never returns normally on a
\* nonzero code.
C13_ConnackHandling ==
    (call.op = "connect" /\ Len(call.inb) >= 4)
    => LET resp == call.inb
           framed == resp[1] = 32 /\ resp[2] = 2
       IN  /\ rx = SubSeq(resp, 5, Len(resp))
           /\ (framed /\ resp[4] = 0)
              => out.exc = "" /\ out.ret = Some(resp[3] % 2)
           /\ (framed /\ resp[4] \in 1..5)
              => /\ out.exc = "MQTTException(" \o ToString(20 + resp[4]) \o ")"
                 /\ out.exc \notin {"MQTTException(" \o ToString(20 + k) \o ")" :
                                     k \in (1..5) \ {resp[4]}}
           /\ (framed /\ resp[4] > 5)
              => out.exc = "MQTTException(20, " \o ToString(resp[4]) \o ")"
           /\ ~framed => out.exc = "AssertionError"
           /\ resp[4] # 0 => out.exc # "" /\ out.ret = None

C13_Witness ==
    /\ call.op = "connect"
    /\ call.inb = <<32, 2, 1, 5>>
    /\ out.exc = "MQTTException(25)"
    /\ out.tx # <<>>
    /\ rx = <<>>

\* C16: connect with a configured last will of QoS 2 fails instead of
\* sending a CONNECT: no CONNECT whose will-QoS bits (bits 4-3 of the flags
\* byte) encode 2 is ever written.
C16_WillQos2Refused ==
    (call.op = "connect" /\ WillSet /\ lw.qos = 2)
    => /\ out.exc # ""
       /\ out.tx = <<>> \/ (ConnectBody[8] \div 8) % 4 # 2

\* a complete packet with a one-byte length field
WholePacket(inb) ==
    Len(inb) >= 2 /\ AllBytes(inb) /\ inb[2] < 128 /\ Len(inb) = 2 + inb[2]

\* C14: a dispatch step that returns has read nothing or exactly the bytes
\* of one complete inbound packet, whatever its type, so that the next step
\* starts at a packet boundary: of a complete packet nothing is left in the
\* transport.
C14_OnePacketPerStep ==
    (Dispatching /\ out.exc = "" /\ WholePacket(call.inb)) => rx = <<>>

\* the number of writes a call makes once it has passed its checks
WritesOf ==
    IF call.op \in {"ping", "disconnect"} /\ sock # "None" THEN 1
    ELSE IF call.op = "publish" /\ sock # "None" /\ call.qos = 1 THEN 5
    ELSE IF call.op = "subscribe" /\ sock # "None" /\ call.qos \in {0, 1} /\ cb_set
    THEN 4
    ELSE IF call.op = "connect" THEN 4
    ELSE IF Dispatching /\ cb_set /\ call.inb = <<50, 6, 0, 1, 116, 0, 7, 109>> THEN 2
    ELSE 0

\* inbound bytes that stop inside a field the client reads in one piece, and
\* nothing more before the timeout of that read has run out; after the first
\* byte of a packet id the payload does not come either
CutInsideRead ==
    {p \o <<Gap>> : p \in {<<64, 2, 0>>, <<144, 3>>, <<144, 3, 0>>, <<144, 3, 0, 1>>,
                            <<48, 5, 0>>, <<50, 6, 0>>, <<48, 5, 0, 1, 116, 109>>}}
    \cup {<<50, 6, 0, 1, 116, 0, Gap, Gap>>}

\* C15: a transport write that takes fewer bytes than it was given makes
\* the call fail with MQTTException(3), and a transport read that gives
\* fewer bytes than asked for, but some, makes it fail with
\* MQTTException(2); this holds in connect, publish, subscribe, ping,
\* disconnect and the dispatch step, the read of the packet id of an
\* inbound QoS-1 PUBLISH included.
C15_ShortTransferFatal ==
    /\ call.wfail \in 1..WritesOf => out.exc = "MQTTException(3)"
    /\ (call.op = "connect" /\ call.wfail = 0 /\ Len(call.inb) \in 1..3)
       => out.exc = "MQTTException(2)"
    /\ (Dispatching /\ cb_set /\ call.inb \in CutInsideRead)
       => out.exc = "MQTTException(2)"

\* C17: connect with clean_session true leaves the table empty, connect
\* with clean_session false leaves it as it was, and both leave the
\* packet-id generator where it was.
C17_ConnectFrame ==
    call.op = "connect"
    => /\ call.clean => rcv_pids = <<>>
       /\ ~call.clean => rcv_pids = call.pre
       /\ newpid = call.pid0

C17_Witness ==
    /\ call.op = "connect"
    /\ call.clean
    /\ Len(call.pre) = 2
    /\ rcv_pids = <<>>
    /\ newpid = 2

\* C18: after any sequence of connect, publish, subscribe, ping, wait_msg
\* and check_msg calls with default timeout arguments, the timeout of the
\* transport is never None.
C18_TimeoutNeverNone ==
    sock = "open" => timeout # "None"

\* C19: an inbound PUBLISH with QoS bits 0x04 or 0x06 is rejected: the
\* dispatch step fails, the message is not delivered to the callback and no
\* PUBACK is written.
C19_InboundQos2Rejected ==
    (/\ Dispatching /\ cb_set /\ call.wfail = 0
     /\ ExpiredIn(call.pre, now) = {}
     /\ (IsPublish(call.inb, 4) \/ IsPublish(call.inb, 6)))
    => /\ out.exc # ""
       /\ out.cb = <<>>
       /\ out.tx = <<>>

\* C20: every well-formed inbound PUBLISH with QoS 0 or 1, one with an
\* empty payload included, is delivered to the callback exactly once with
\* its topic, its payload of remaining_length - 2 - topic_length [- 2] bytes
\* and its retained flag, and the dispatch step does not fail.
C20_EveryPublishDelivered ==
    (/\ Dispatching /\ cb_set /\ call.wfail = 0
     /\ ExpiredIn(call.pre, now) = {}
     /\ (IsPublish(call.inb, 0) \/ IsPublish(call.inb, 2)))
    => LET tl == U16(call.inb, 3)
           skip == 4 + tl + (IF And06(call.inb[1]) = 0 THEN 0 ELSE 2)
       IN  /\ out.exc = ""
           /\ Len(out.cb) = 1
           /\ out.cb[1].topic = Some(SubSeq(call.inb, 5, 4 + tl))
           /\ out.cb[1].msg = Some(SubSeq(call.inb, skip + 1, Len(call.inb)))
           /\ out.cb[1].retained = (And01(call.inb[1]) = 1)

====
